---- MODULE Spec2Model ----
(***************************************************************************)
(* A model of girc's Client (src/girc/client.py): the sender and receiver  *)
(* loops over one socket, the dispatch of received messages to handlers,   *)
(* the nick negotiation (setter, nick_in_use, forced_nick_change) and the  *)
(* shutdown sequence.  Greenlets are processes; a step of a process runs   *)
(* from one blocking call to the next.                                     *)
(***************************************************************************)
EXTENDS Integers, Sequences, FiniteSets, TLC

\* ------------------------------------------------------------------ bounds
\* messages a user task may pass to _send()
MaxSend == 2
\* calls of stop() that are counted
MaxStopCalls == 2
\* lines the server sends
MaxInbound == 2

\* --------------------------------------------------------------- constants
None == "None"
\* tasks that are not greenlets of the client's group: the callers of the API
Users == {1, 2}
\* the nick given to the constructor, and the nicks callers ask for
InitialNick == "alice"
WantedNicks == {"bob", "dan"}
\* callbacks a caller may pass as stop_handler; the suffix says what one does
CtorStopHandlers == {"raise", "restop"}

VARIABLES
  started,          \* Client.started
  stopped,          \* Client.stopped
  send_queue,       \* Client._send_queue: the queued (message, callback) pairs
  queue_none,       \* TRUE once _stop has set the queues to None
  message_handlers, \* Client.message_handlers
  stop_handlers,    \* Client.stop_handlers
  nick,             \* Client._nick
  new_nick,         \* Client._new_nick
  nick_lock,        \* Client._nick_lock: [owner, count], owner 0 when free
  wire,             \* what has been written to the socket, in order
  sendPc,           \* position of the _send_loop greenlet
  cur,              \* the message _send_loop has dequeued
  recvPc,           \* position of the _recv_loop greenlet
  pass,             \* the dispatch pass of _process: [msg, snapshot, offered]
  tasks,            \* users and spawned greenlets: task records by task id
  received,         \* payloads whose wait_for_messages event is set
  events,           \* users whose wait_for_stop event is set
  stopPc,           \* position of the _stop greenlet
  stop_seen,        \* how often the loop of _stop has called each stop callback
  stop_reg,         \* stop_handlers as it was when the loop of _stop started
  enq,              \* history: every message passed to _send, in order
  stop_calls,       \* history: number of calls of stop()
  stop_runs,        \* history: number of _stop greenlets spawned
  hist,             \* history: lines received, PINGs of wait_for_messages,
                    \* users that have set the nick, whether the server has
                    \* closed the connection, the last callback that raised,
                    \* whether a recv() has been interrupted
  codec,            \* geventirc.message: a function, its argument, its result
  rx,               \* _recv_loop at the level of bytes: the stream to come,
                    \* partial, the lines handed to _process
  srv               \* the server: lines read, the nick it records, its replies

vars == <<started, stopped, send_queue, queue_none, message_handlers,
          stop_handlers, nick, new_nick, nick_lock, wire, sendPc, cur, recvPc,
          pass, tasks, received, events, stopPc, stop_seen, stop_reg, enq,
          stop_calls, stop_runs, hist, codec, rx, srv>>

\* what the greenlets of the client leave alone
extVars == <<codec, rx, srv>>

ioVars == <<send_queue, wire, sendPc, cur, enq>>
nickVars == <<nick, new_nick, nick_lock, received>>
stopCall == <<stopped, stopPc, stop_calls, stop_runs>>
recvVars == <<recvPc, pass>>

\* ------------------------------------------------------------------ values
NoMsg == [id |-> 0, command |-> None, param |-> None, sender |-> None, cb |-> FALSE]

\* a message on its way out: the pair (message, callback) of _send
OutMsg(i, c, p, k) == [id |-> i, command |-> c, param |-> p, sender |-> None, cb |-> k]

\* a decoded line of the server
InMsg(c, s, p) == [id |-> 0, command |-> c, param |-> p, sender |-> s, cb |-> FALSE]

Handler(n, p) == [name |-> n, payload |-> p]

\* the handlers __init__ registers
DefaultHandlers ==
  { Handler("recv_support", None), Handler("on_ping", None),
    Handler("nick_in_use", None), Handler("forced_nick_change", None),
    Handler("forced_join", None) }

Task(k, pc, m, p) == [kind |-> k, pc |-> pc, m |-> m, p |-> p, note |-> None]

FreeLock == [owner |-> 0, count |-> 0]

\* the names of greenlets: the one for the callback of handler h on the
\* line-th line of the server, and the one for the callback of message i
HandlerNo(h) ==
  CASE h.name = "recv_support" -> 1
    [] h.name = "on_ping" -> 2
    [] h.name = "nick_in_use" -> 3
    [] h.name = "forced_nick_change" -> 4
    [] h.name = "forced_join" -> 5
    [] h.name = "on_pong" -> 6
    [] h.payload = "raises" -> 7
    [] h.payload = "chain" -> 8
    [] OTHER -> 9
HandlerTask(line, h) == 10 * line + HandlerNo(h)
CallbackTask(i) == 1000 + i

\* a new greenlet id with record r joins the tasks; one that ended leaves
\* them
Spawn(ts, id, r) == [i \in DOMAIN ts \cup {id} |->
                       IF i \in DOMAIN ts THEN ts[i] ELSE r]
Ended(ts, t) == [i \in DOMAIN ts \ {t} |-> ts[i]]

Payload(n) == "p" \o ToString(n)

\* the callback that the k-th call of wait_for_stop by user u adds to
\* stop_handlers: it sets the event of that call
EventId(u, k) == "e" \o ToString(u) \o "_" \o ToString(k)
EventIds == { EventId(u, k) : u \in Users, k \in 1..2 }

\* every callback stop_handlers may hold
StopFns == CtorStopHandlers \cup {"close"} \cup EventIds

\* no callback has raised; else: during which line, where _process was
\* and which handlers of its copy it had yet to offer the message
NoFault == [line |-> 0, pc |-> "none", left |-> {}]

\* no function of geventirc.message is being applied
NoPrefix == [set |-> FALSE, s |-> << >>]
NoMessage == [prefix |-> NoPrefix, command |-> << >>, params |-> << >>]
NoDecoded == [ok |-> FALSE, msg |-> NoMessage]
NoCodec == [kind |-> "none", pc |-> "none", msg |-> NoMessage, line |-> << >>,
            raised |-> FALSE, back |-> NoDecoded, layer |-> "none", text |-> << >>,
            quoted |-> << >>, dequoted |-> << >>]

\* no bytes are on their way to _recv_loop
NoRx == [pc |-> "none", stream |-> << >>, all |-> << >>, partial |-> << >>,
         lines |-> << >>, decoded |-> << >>, dropped |-> << >>, cut |-> FALSE]

\* no server is looked at
NoSrv == [on |-> FALSE, read |-> {}, nick |-> None, out |-> << >>,
         meddled |-> 0, rejected |-> {}]

\* the state __init__ leaves, given its argument stop_handler
ClientInit(stop_handler) ==
  /\ started = FALSE
  /\ stopped = FALSE
  /\ send_queue = << OutMsg(1, "NICK", InitialNick, FALSE),
                     OutMsg(2, "USER", InitialNick, FALSE) >>
  /\ queue_none = FALSE
  /\ message_handlers = DefaultHandlers
  /\ stop_handlers = stop_handler
  /\ nick = InitialNick
  /\ new_nick = None
  /\ nick_lock = FreeLock
  /\ wire = << >>
  /\ sendPc = "idle"
  /\ cur = NoMsg
  /\ recvPc = "idle"
  /\ pass = [msg |-> NoMsg, snapshot |-> {}, offered |-> {}]
  /\ tasks = [u \in Users |-> Task("user", "ready", NoMsg, None)]
  /\ received = {}
  /\ events = {}
  /\ stopPc = "none"
  /\ stop_seen = [fn \in StopFns |-> 0]
  /\ stop_reg = {}
  /\ enq = send_queue
  /\ stop_calls = 0
  /\ stop_runs = 0
  /\ hist = [inbound |-> 0, pings |-> 0, asked |-> {}, closed |-> FALSE,
             fault |-> NoFault, eintr |-> FALSE]

InitWith(stop_handler) ==
  /\ ClientInit(stop_handler)
  /\ codec = NoCodec
  /\ rx = NoRx
  /\ srv = NoSrv

\* stop_handler left at its default, and given as a list of callbacks
Init == InitWith({})
InitStop == \E given \in SUBSET CtorStopHandlers : InitWith(given)

\* ------------------------------------------------------------- Client.stop
\* stop(), up to the spawn of _stop: the caller then waits in join()
Counted(n) == IF n < MaxStopCalls THEN n + 1 ELSE n

\* a stop() that does not look at self.stopped
stop_unguarded ==
  /\ stop_calls' = Counted(stop_calls)
  /\ stopped' = TRUE
  /\ stopPc' = "kill"
  /\ stop_runs' = stop_runs + 1

stop ==
  /\ stop_calls' = Counted(stop_calls)
  /\ IF stopped
       THEN UNCHANGED <<stopped, stopPc, stop_runs>>
       ELSE /\ stopped' = TRUE
            /\ stopPc' = "kill"
            /\ stop_runs' = stop_runs + 1

\* where a caller of stop() is afterwards: back at once, or waiting in join()
AfterStop(back) == IF stopped THEN back ELSE "join"

InGroup(t) == tasks[t].kind # "user"
Alive(t) == tasks[t].pc \notin {"done", "returned", "killed"}
\* a task inside the try block of the nick setter
InSetter(t) == tasks[t].pc = "barrier"

\* the tasks whose record is kept when the group has been killed: the
\* callers, the completion callbacks and the nick_in_use that have returned
Kept(t) == ~InGroup(t) \/ tasks[t].kind = "callback" \/ ~Alive(t)

KillLoop(pc) == IF pc \in {"idle", "exited"} THEN pc ELSE "killed"

\* _stop: self._group.kill().  Every greenlet of the group gets GreenletExit
\* where it waits; the finally and with blocks it is in run.
StopKill ==
  /\ stopPc = "kill"
  /\ sendPc' = KillLoop(sendPc)
  /\ recvPc' = KillLoop(recvPc)
  /\ tasks' = [t \in {i \in DOMAIN tasks : Kept(i)} |->
                 IF InGroup(t) /\ Alive(t)
                   THEN [tasks[t] EXCEPT !.pc = "killed"] ELSE tasks[t]]
  /\ new_nick' = IF \E t \in DOMAIN tasks : InGroup(t) /\ InSetter(t)
                   THEN None ELSE new_nick
  /\ nick_lock' = IF nick_lock.owner # 0 /\ InGroup(nick_lock.owner)
                    THEN FreeLock ELSE nick_lock
  /\ stopPc' = "handlers"
  /\ stop_reg' = stop_handlers
  /\ UNCHANGED <<started, stopped, send_queue, queue_none, message_handlers,
                 stop_handlers, nick, wire, cur, pass, received, events,
                 stop_seen, enq, stop_calls, stop_runs, hist>>
  /\ UNCHANGED extVars

\* _stop: one round of "for fn in self.stop_handlers: fn(self)"
StopHandler(fn) ==
  /\ stopPc = "handlers"
  /\ Cardinality(stop_handlers) = Cardinality(stop_reg)
  /\ fn \in stop_handlers
  /\ stop_seen[fn] = 0
  /\ stop_seen' = [stop_seen EXCEPT ![fn] = @ + 1]
  /\ events' = IF fn \in EventIds THEN events \cup {fn} ELSE events
  /\ IF fn = "restop"
       THEN stop
       ELSE /\ stopPc' = IF fn = "raise" THEN "crashed" ELSE stopPc
            /\ UNCHANGED <<stopped, stop_calls, stop_runs>>
  /\ UNCHANGED <<started, send_queue, queue_none, message_handlers,
                 stop_handlers, nick, new_nick, nick_lock, wire, sendPc, cur,
                 recvPc, pass, tasks, received, stop_reg, enq, hist>>
  /\ UNCHANGED extVars

\* _stop: the set iterator finds that stop_handlers changed size under it
StopSetChanged ==
  /\ stopPc = "handlers"
  /\ Cardinality(stop_handlers) # Cardinality(stop_reg)
  /\ stopPc' = "crashed"
  /\ UNCHANGED <<started, stopped, send_queue, queue_none, message_handlers,
                 stop_handlers, nick, new_nick, nick_lock, wire, sendPc, cur,
                 recvPc, pass, tasks, received, events, stop_seen, stop_reg,
                 enq, stop_calls, stop_runs, hist>>
  /\ UNCHANGED extVars

\* _stop: after the loop, the back-references and the queues are dropped
StopCleanup ==
  /\ stopPc = "handlers"
  /\ Cardinality(stop_handlers) = Cardinality(stop_reg)
  /\ \A fn \in stop_handlers : stop_seen[fn] > 0
  /\ message_handlers' = {}
  /\ queue_none' = TRUE
  /\ stopPc' = "done"
  /\ UNCHANGED <<started, stopped, send_queue, stop_handlers, nick, new_nick,
                 nick_lock, wire, sendPc, cur, recvPc, pass, tasks, received,
                 events, stop_seen, stop_reg, enq, stop_calls, stop_runs, hist>>
  /\ UNCHANGED extVars

\* ------------------------------------------------------- Client._send_loop
\* a sender that takes the newest queued message instead of the oldest
SendGet_newest ==
  /\ sendPc = "get"
  /\ send_queue # << >>
  /\ cur' = send_queue[Len(send_queue)]
  /\ send_queue' = SubSeq(send_queue, 1, Len(send_queue) - 1)
  /\ sendPc' = "sendall"
  /\ UNCHANGED <<started, stopped, queue_none, message_handlers, stop_handlers,
                 nick, new_nick, nick_lock, wire, recvPc, pass, tasks, received,
                 events, stopPc, stop_seen, stop_reg, enq, stop_calls,
                 stop_runs, hist>>
  /\ UNCHANGED extVars

\* message, callback = self._send_queue.get()
SendGet ==
  /\ sendPc = "get"
  /\ send_queue # << >>
  /\ cur' = Head(send_queue)
  /\ send_queue' = Tail(send_queue)
  /\ sendPc' = "sendall"
  /\ UNCHANGED <<started, stopped, queue_none, message_handlers, stop_handlers,
                 nick, new_nick, nick_lock, wire, recvPc, pass, tasks, received,
                 events, stopPc, stop_seen, stop_reg, enq, stop_calls,
                 stop_runs, hist>>
  /\ UNCHANGED extVars

\* sendall() has written a part of the line and waits for the socket
SendPartial ==
  /\ sendPc = "sendall"
  /\ wire' = Append(wire, [id |-> cur.id, part |-> "head"])
  /\ sendPc' = "sendall_rest"
  /\ UNCHANGED <<started, stopped, send_queue, queue_none, message_handlers,
                 stop_handlers, nick, new_nick, nick_lock, cur, recvPc, pass,
                 tasks, received, events, stopPc, stop_seen, stop_reg, enq,
                 stop_calls, stop_runs, hist>>
  /\ UNCHANGED extVars

\* a sender that goes on with the queue after a QUIT
SendDone_on ==
  /\ sendPc \in {"sendall", "sendall_rest"}
  /\ wire' = Append(wire, [id |-> cur.id,
                           part |-> IF sendPc = "sendall" THEN "line" ELSE "tail"])
  /\ tasks' = IF cur.cb THEN Spawn(tasks, CallbackTask(cur.id),
                                   Task("callback", "spawned", cur, None))
                        ELSE tasks
  /\ cur' = NoMsg
  /\ sendPc' = "get" /\ UNCHANGED stopCall
  /\ UNCHANGED <<started, send_queue, queue_none, message_handlers,
                 stop_handlers, nick, new_nick, nick_lock, recvPc, pass,
                 received, events, stop_seen, stop_reg, enq, hist>>
  /\ UNCHANGED extVars

\* sendall() returns: the callback is spawned, and QUIT ends the loop
SendDone ==
  /\ sendPc \in {"sendall", "sendall_rest"}
  /\ wire' = Append(wire, [id |-> cur.id,
                           part |-> IF sendPc = "sendall" THEN "line" ELSE "tail"])
  /\ tasks' = IF cur.cb THEN Spawn(tasks, CallbackTask(cur.id),
                                   Task("callback", "spawned", cur, None))
                        ELSE tasks
  /\ cur' = NoMsg
  /\ IF cur.command = "QUIT"
       THEN stop /\ sendPc' = AfterStop("exited")
       ELSE sendPc' = "get" /\ UNCHANGED stopCall
  /\ UNCHANGED <<started, send_queue, queue_none, message_handlers,
                 stop_handlers, nick, new_nick, nick_lock, recvPc, pass,
                 received, events, stop_seen, stop_reg, enq, hist>>
  /\ UNCHANGED extVars

\* sendall() fails with EPIPE (break) or with another error (logged)
SendFail ==
  /\ sendPc \in {"sendall", "sendall_rest"}
  /\ cur' = NoMsg
  /\ stop
  /\ sendPc' = AfterStop("exited")
  /\ UNCHANGED <<started, send_queue, queue_none, message_handlers,
                 stop_handlers, nick, new_nick, nick_lock, wire, recvPc, pass,
                 tasks, received, events, stop_seen, stop_reg, enq, hist>>
  /\ UNCHANGED extVars

\* the greenlet of the callback of a written message runs
CallbackRun(t) ==
  /\ tasks[t].kind = "callback"
  /\ tasks[t].pc = "spawned"
  /\ tasks' = [tasks EXCEPT ![t].pc = "done"]
  /\ UNCHANGED <<started, stopped, send_queue, queue_none, message_handlers,
                 stop_handlers, nick, new_nick, nick_lock, wire, sendPc, cur,
                 recvPc, pass, received, events, stopPc, stop_seen, stop_reg,
                 enq, stop_calls, stop_runs, hist>>
  /\ UNCHANGED extVars

\* ------------------------------------------------------- Client._recv_loop
\* recv() returns no data (or fails with an error other than EINTR)
RecvCloses ==
  /\ recvPc = "recv"
  /\ stop
  /\ recvPc' = AfterStop("exited")
  /\ hist' = [hist EXCEPT !.closed = TRUE]
  /\ UNCHANGED <<started, send_queue, queue_none, message_handlers,
                 stop_handlers, nick, new_nick, nick_lock, wire, sendPc, cur,
                 pass, tasks, received, events, stop_seen, stop_reg, enq>>

RecvClosed ==
  /\ RecvCloses
  /\ UNCHANGED extVars

\* a receiver for which EINTR is an error like the others
RecvInterrupted_fatal ==
  /\ recvPc = "recv"
  /\ stop
  /\ recvPc' = AfterStop("exited")
  /\ hist' = [hist EXCEPT !.eintr = TRUE]
  /\ UNCHANGED <<started, send_queue, queue_none, message_handlers,
                 stop_handlers, nick, new_nick, nick_lock, wire, sendPc, cur,
                 pass, tasks, received, events, stop_seen, stop_reg, enq>>
  /\ UNCHANGED extVars

\* recv() fails with EINTR: continue, the loop calls recv() again
RecvInterrupted ==
  /\ recvPc = "recv"
  /\ hist' = [hist EXCEPT !.eintr = TRUE]
  /\ UNCHANGED <<started, stopped, send_queue, queue_none, message_handlers,
                 stop_handlers, nick, new_nick, nick_lock, wire, sendPc, cur,
                 recvPc, pass, tasks, received, events, stopPc, stop_seen,
                 stop_reg, enq, stop_calls, stop_runs>>
  /\ UNCHANGED extVars

\* ----------------------------------------- Client._process and handlers
\* matches_nick(value)
matches_nick(value) == value \in {nick, new_nick}

\* whether handler h takes message m: the match arguments it was made with
Matches(h, m) ==
  CASE h.name = "nick_in_use" -> m.command = "433"
    [] h.name = "forced_nick_change" -> m.command = "NICK" /\ matches_nick(m.sender)
    [] h.name = "forced_join" -> m.command = "JOIN" /\ matches_nick(m.sender)
    [] h.name = "on_ping" -> m.command = "PING"
    [] h.name = "recv_support" -> m.command = "005"
    [] h.name = "on_pong" -> m.command = "PONG" /\ m.param = h.payload
    [] OTHER -> m.command = "PRIVMSG"

\* handler.handle(self, msg): a matching handler's callback gets a greenlet
Handle(h, m) ==
  IF Matches(h, m)
    THEN Spawn(tasks, HandlerTask(hist.inbound, h),
               Task(h.name, "spawned", m, h.payload))
    ELSE tasks

\* the handler the iterator of a set yields next: some fixed order
NextOf(S) == CHOOSE h \in S : TRUE

\* recv() returns a line: _process decodes it and copies message_handlers
RecvLine(m) ==
  /\ recvPc = "recv"
  /\ hist.inbound < MaxInbound
  /\ hist' = [hist EXCEPT !.inbound = @ + 1]
  /\ pass' = [msg |-> m, snapshot |-> message_handlers, offered |-> {}]
  /\ recvPc' = IF message_handlers = {} THEN "recv" ELSE "process"
  /\ UNCHANGED <<started, stopped, send_queue, queue_none, message_handlers,
                 stop_handlers, nick, new_nick, nick_lock, wire, sendPc, cur,
                 tasks, received, events, stopPc, stop_seen, stop_reg, enq,
                 stop_calls, stop_runs>>
  /\ UNCHANGED extVars

\* the greenlets of all handlers of H that take message m
RECURSIVE HandleAll(_, _, _, _)
HandleAll(ts, H, m, line) ==
  IF H = {} THEN ts
  ELSE HandleAll(IF Matches(NextOf(H), m)
                   THEN Spawn(ts, HandlerTask(line, NextOf(H)),
                              Task(NextOf(H).name, "spawned", m,
                                   NextOf(H).payload))
                   ELSE ts,
                 H \ {NextOf(H)}, m, line)

\* recv() returns a line and _process runs its pass without a task switch
\* (no handle() blocks): every handler of the copy is offered the message,
\* and the pass leaves nothing behind but the greenlets
ProcessLine(m) ==
  /\ recvPc = "recv"
  /\ hist' = [hist EXCEPT !.inbound = @ + 1]
  /\ tasks' = HandleAll(tasks, message_handlers, m, hist.inbound + 1)
  /\ UNCHANGED <<started, stopped, send_queue, queue_none, message_handlers,
                 stop_handlers, nick, new_nick, nick_lock, wire, sendPc, cur,
                 recvPc, pass, received, events, stopPc, stop_seen, stop_reg,
                 enq, stop_calls, stop_runs>>

Process(m) ==
  /\ hist.inbound < MaxInbound
  /\ ProcessLine(m)
  /\ UNCHANGED extVars

\* a dispatch that walks message_handlers itself instead of the copy
ProcessStep_live(h) ==
  /\ recvPc = "process"
  /\ message_handlers \ pass.offered # {}
  /\ h = NextOf(message_handlers \ pass.offered)
  /\ tasks' = Handle(h, pass.msg)
  /\ pass' = [pass EXCEPT !.offered = @ \cup {h}]
  /\ recvPc' = IF message_handlers \subseteq pass.offered \cup {h}
                 THEN "recv" ELSE "process"
  /\ UNCHANGED <<started, stopped, send_queue, queue_none, message_handlers,
                 stop_handlers, nick, new_nick, nick_lock, wire, sendPc, cur,
                 received, events, stopPc, stop_seen, stop_reg, enq,
                 stop_calls, stop_runs, hist>>
  /\ UNCHANGED extVars

\* a handle() that calls the callback itself: the exception of a callback
\* that raises leaves _process and ends _recv_loop
ProcessStep_inline(h) ==
  /\ recvPc = "process"
  /\ pass.snapshot \ pass.offered # {}
  /\ h = NextOf(pass.snapshot \ pass.offered)
  /\ IF Matches(h, pass.msg) /\ h.payload = "raises"
       THEN /\ hist' = [hist EXCEPT !.fault =
                          [line |-> hist.inbound, pc |-> recvPc,
                           left |-> pass.snapshot \ pass.offered]]
            /\ stop
            /\ recvPc' = AfterStop("exited")
            /\ UNCHANGED <<tasks, pass>>
       ELSE /\ tasks' = Handle(h, pass.msg)
            /\ pass' = [pass EXCEPT !.offered = @ \cup {h}]
            /\ recvPc' = IF pass.snapshot = pass.offered \cup {h}
                           THEN "recv" ELSE "process"
            /\ UNCHANGED <<stopped, stopPc, stop_calls, stop_runs, hist>>
  /\ UNCHANGED <<started, send_queue, queue_none, message_handlers,
                 stop_handlers, nick, new_nick, nick_lock, wire, sendPc, cur,
                 received, events, stop_seen, stop_reg, enq>>
  /\ UNCHANGED extVars

\* one round of "for handler in self.message_handlers.copy()"
ProcessStep(h) ==
  /\ recvPc = "process"
  /\ pass.snapshot \ pass.offered # {}
  /\ h = NextOf(pass.snapshot \ pass.offered)
  /\ tasks' = Handle(h, pass.msg)
  /\ pass' = [pass EXCEPT !.offered = @ \cup {h}]
  /\ recvPc' = IF pass.snapshot = pass.offered \cup {h} THEN "recv" ELSE "process"
  /\ UNCHANGED <<started, stopped, send_queue, queue_none, message_handlers,
                 stop_handlers, nick, new_nick, nick_lock, wire, sendPc, cur,
                 received, events, stopPc, stop_seen, stop_reg, enq,
                 stop_calls, stop_runs, hist>>
  /\ UNCHANGED extVars

Ready(u) == tasks[u].kind = "user" /\ tasks[u].pc = "ready"

\* handlers a user task registers with client.handler(callback, command=...);
\* the payload says what the callback does
UserHandlers == { Handler("user", "raises"), Handler("user", "chain") }
AddedHandler == Handler("user", "plain")
AllHandlers == DefaultHandlers \cup UserHandlers \cup {AddedHandler}

Spawned(t, name, what) ==
  /\ tasks[t].kind = name
  /\ tasks[t].pc = "spawned"
  /\ tasks[t].p = what

\* client.handler(...) and handler.unregister(client), by a user task
Register(u, h) ==
  /\ Ready(u)
  /\ h \notin message_handlers
  /\ message_handlers' = message_handlers \cup {h}
  /\ UNCHANGED <<started, stopped, send_queue, queue_none, stop_handlers, nick,
                 new_nick, nick_lock, wire, sendPc, cur, recvPc, pass, tasks,
                 received, events, stopPc, stop_seen, stop_reg, enq,
                 stop_calls, stop_runs, hist>>
  /\ UNCHANGED extVars

Unregister(u, h) ==
  /\ Ready(u)
  /\ h \in message_handlers
  /\ message_handlers' = message_handlers \ {h}
  /\ UNCHANGED <<started, stopped, send_queue, queue_none, stop_handlers, nick,
                 new_nick, nick_lock, wire, sendPc, cur, recvPc, pass, tasks,
                 received, events, stopPc, stop_seen, stop_reg, enq,
                 stop_calls, stop_runs, hist>>
  /\ UNCHANGED extVars

\* what is recorded of a callback that raises now
FaultNow == [line |-> hist.inbound, pc |-> recvPc,
             left |-> pass.snapshot \ pass.offered]

\* a callback raises: its greenlet ends, the exception goes no further
HandlerRaises(t) ==
  /\ Spawned(t, "user", "raises")
  /\ tasks' = Ended(tasks, t)
  /\ hist' = [hist EXCEPT !.fault = FaultNow]
  /\ UNCHANGED <<started, stopped, send_queue, queue_none, message_handlers,
                 stop_handlers, nick, new_nick, nick_lock, wire, sendPc, cur,
                 recvPc, pass, received, events, stopPc, stop_seen, stop_reg,
                 enq, stop_calls, stop_runs>>
  /\ UNCHANGED extVars

\* a callback registers another handler and returns True, which
\* unregisters its own handler
HandlerChain(t) ==
  /\ Spawned(t, "user", "chain")
  /\ tasks' = Ended(tasks, t)
  /\ message_handlers' =
       (message_handlers \ {Handler("user", "chain")}) \cup {AddedHandler}
  /\ UNCHANGED <<started, stopped, send_queue, queue_none, stop_handlers, nick,
                 new_nick, nick_lock, wire, sendPc, cur, recvPc, pass, received,
                 events, stopPc, stop_seen, stop_reg, enq, stop_calls,
                 stop_runs, hist>>
  /\ UNCHANGED extVars

\* a callback returns
HandlerPlain(t) ==
  /\ Spawned(t, "user", "plain")
  /\ tasks' = Ended(tasks, t)
  /\ UNCHANGED <<started, stopped, send_queue, queue_none, message_handlers,
                 stop_handlers, nick, new_nick, nick_lock, wire, sendPc, cur,
                 recvPc, pass, received, events, stopPc, stop_seen, stop_reg,
                 enq, stop_calls, stop_runs, hist>>
  /\ UNCHANGED extVars

\* ------------------------------------------------- the callers of the API
\* start(): ignored when stopped or started; else connect and spawn the loops
Start(u) ==
  /\ Ready(u)
  /\ IF stopped \/ started
       THEN UNCHANGED <<started, stop_handlers, sendPc, recvPc>>
       ELSE /\ started' = TRUE
            /\ stop_handlers' = stop_handlers \cup {"close"}
            /\ sendPc' = "get"
            /\ recvPc' = "recv"
  /\ UNCHANGED <<stopped, send_queue, queue_none, message_handlers, nick,
                 new_nick, nick_lock, wire, cur, pass, tasks, received, events,
                 stopPc, stop_seen, stop_reg, enq, stop_calls, stop_runs, hist>>
  /\ UNCHANGED extVars

\* start() when connect() raises: the client is stopped, no loop is spawned
StartFails(u) ==
  /\ Ready(u)
  /\ ~stopped /\ ~started
  /\ started' = TRUE
  /\ stop_handlers' = stop_handlers \cup {"close"}
  /\ stop
  /\ tasks' = [tasks EXCEPT ![u].pc = AfterStop("ready")]
  /\ UNCHANGED <<send_queue, queue_none, message_handlers, nick, new_nick,
                 nick_lock, wire, sendPc, cur, recvPc, pass, received, events,
                 stop_seen, stop_reg, enq, hist>>
  /\ UNCHANGED extVars

\* self._send_queue.put((message, callback))
Put(q, c, p, k) == Append(q, OutMsg(Len(enq) + 1, c, p, k))

\* messages passed to _send after __init__
Sent == Len(enq) - 2

\* _send(message, callback); it raises once the queue is None
UserSend(u, c, k) ==
  /\ Ready(u)
  /\ Sent < MaxSend
  /\ IF queue_none
       THEN UNCHANGED <<send_queue, enq>>
       ELSE /\ send_queue' = Put(send_queue, c, "text", k)
            /\ enq' = Put(enq, c, "text", k)
  /\ UNCHANGED <<started, stopped, queue_none, message_handlers, stop_handlers,
                 nick, new_nick, nick_lock, wire, sendPc, cur, recvPc, pass,
                 tasks, received, events, stopPc, stop_seen, stop_reg,
                 stop_calls, stop_runs, hist>>
  /\ UNCHANGED extVars

\* stop() called by a user task
UserStop(u) ==
  /\ Ready(u)
  /\ stop
  /\ tasks' = [tasks EXCEPT ![u].pc = AfterStop("ready")]
  /\ UNCHANGED <<started, send_queue, queue_none, message_handlers,
                 stop_handlers, nick, new_nick, nick_lock, wire, sendPc, cur,
                 recvPc, pass, received, events, stop_seen, stop_reg, enq, hist>>
  /\ UNCHANGED extVars

\* gevent.spawn(_stop).join() returns when the _stop greenlet has ended
UserJoined(u) ==
  /\ tasks[u].kind = "user" /\ tasks[u].pc = "join"
  /\ stopPc \in {"done", "crashed"}
  /\ tasks' = [tasks EXCEPT ![u].pc = "ready"]
  /\ UNCHANGED <<started, stopped, send_queue, queue_none, message_handlers,
                 stop_handlers, nick, new_nick, nick_lock, wire, sendPc, cur,
                 recvPc, pass, received, events, stopPc, stop_seen, stop_reg,
                 enq, stop_calls, stop_runs, hist>>
  /\ UNCHANGED extVars

\* the event of the next call of wait_for_stop by user u
NextEvent(u) ==
  EventId(u, 1 + Cardinality({k \in 1..2 : EventId(u, k) \in stop_handlers}))

\* wait_for_stop(): add a callback that sets a new event, wait for the event
WaitForStop(u) ==
  /\ Ready(u)
  /\ NextEvent(u) \in EventIds
  /\ stop_handlers' = stop_handlers \cup {NextEvent(u)}
  /\ tasks' = [tasks EXCEPT ![u].pc = "wait_stop", ![u].p = NextEvent(u)]
  /\ UNCHANGED <<started, stopped, send_queue, queue_none, message_handlers,
                 nick, new_nick, nick_lock, wire, sendPc, cur, recvPc, pass,
                 received, events, stopPc, stop_seen, stop_reg, enq,
                 stop_calls, stop_runs, hist>>
  /\ UNCHANGED extVars

\* event.wait() returns
WaitReturn(u) ==
  /\ tasks[u].kind = "user" /\ tasks[u].pc = "wait_stop"
  /\ tasks[u].p \in events
  /\ tasks' = [tasks EXCEPT ![u].pc = "ready", ![u].p = None]
  /\ UNCHANGED <<started, stopped, send_queue, queue_none, message_handlers,
                 stop_handlers, nick, new_nick, nick_lock, wire, sendPc, cur,
                 recvPc, pass, received, events, stopPc, stop_seen, stop_reg,
                 enq, stop_calls, stop_runs, hist>>
  /\ UNCHANGED extVars

\* quit(block=True): queue a QUIT, then wait_for_stop()
Quit(u) ==
  /\ Ready(u)
  /\ Sent < MaxSend
  /\ ~queue_none
  /\ NextEvent(u) \in EventIds
  /\ send_queue' = Put(send_queue, "QUIT", "bye", FALSE)
  /\ enq' = Put(enq, "QUIT", "bye", FALSE)
  /\ stop_handlers' = stop_handlers \cup {NextEvent(u)}
  /\ tasks' = [tasks EXCEPT ![u].pc = "wait_stop", ![u].p = NextEvent(u)]
  /\ UNCHANGED <<started, stopped, queue_none, message_handlers, nick,
                 new_nick, nick_lock, wire, sendPc, cur, recvPc, pass, received,
                 events, stopPc, stop_seen, stop_reg, stop_calls, stop_runs,
                 hist>>
  /\ UNCHANGED extVars

\* ------------------------------------------------------ the nick setter
\* increment_nick(nick): the next candidate after a nick that is in use
increment_nick(n) == n \o "1"

\* a lock that anyone can take at any time
LockFree_any(t) == TRUE

\* self._nick_lock can be taken by task t (an RLock: free, or held by t)
LockFree(t) == nick_lock.owner \in {0, t}

\* the exceptions of the setter, by the call that raised them: nick_msg.send()
\* in the try block, self.quit() in the except clause
SendError == "send_raised"
QuitError == "quit_raised"

\* the setter from "with self._nick_lock" to the wait in wait_for_messages,
\* run by task t for new_nick n
EnterSetter(t, n, note) ==
  IF queue_none
    THEN \* send() raises; in the except clause quit() sends too and raises,
         \* so the bare raise is not reached; the finally clears _new_nick
         \* and the exception of quit() ends the handler, or goes to the
         \* caller
         /\ new_nick' = None
         /\ nick_lock' = FreeLock
         /\ tasks' = IF tasks[t].kind = "user"
                       THEN [tasks EXCEPT ![t].pc = "ready", ![t].p = None,
                                          ![t].note = QuitError]
                       ELSE Ended(tasks, t)
         /\ UNCHANGED <<send_queue, enq, message_handlers, hist>>
    ELSE /\ new_nick' = n
         /\ nick_lock' = [owner |-> t,
                          count |-> IF tasks[t].kind = "user" THEN 1 ELSE 2]
         /\ send_queue' = Append(Put(send_queue, "NICK", n, FALSE),
                                 OutMsg(Len(enq) + 2, "PING",
                                        Payload(hist.pings + 1), FALSE))
         /\ enq' = Append(Put(enq, "NICK", n, FALSE),
                          OutMsg(Len(enq) + 2, "PING",
                                 Payload(hist.pings + 1), FALSE))
         /\ message_handlers' =
              message_handlers \cup {Handler("on_pong", Payload(hist.pings + 1))}
         /\ hist' = [hist EXCEPT !.pings = @ + 1]
         /\ tasks' = [tasks EXCEPT ![t].pc = "barrier",
                                   ![t].p = Payload(hist.pings + 1),
                                   ![t].note = note]

\* the nick user task u asks for
WantedNick(u) == IF u = 1 THEN "bob" ELSE "dan"

\* client.nick = n, called by a user task (each once): it first needs the
\* lock
SetNick(u, n) ==
  /\ Ready(u)
  /\ u \notin hist.asked
  /\ hist' = [hist EXCEPT !.asked = @ \cup {u}]
  /\ tasks' = [tasks EXCEPT ![u].pc = "wantlock", ![u].p = n]
  /\ UNCHANGED <<started, stopped, send_queue, queue_none, message_handlers,
                 stop_handlers, nick, new_nick, nick_lock, wire, sendPc, cur,
                 recvPc, pass, received, events, stopPc, stop_seen, stop_reg,
                 enq, stop_calls, stop_runs>>
  /\ UNCHANGED extVars

\* the user task gets the lock: _new_nick is set, NICK and PING are queued
SetterEnter(u) ==
  /\ tasks[u].kind = "user" /\ tasks[u].pc = "wantlock"
  /\ LockFree(u)
  /\ EnterSetter(u, tasks[u].p, None)
  /\ UNCHANGED <<started, stopped, queue_none, stop_handlers, nick, wire,
                 sendPc, cur, recvPc, pass, received, events, stopPc,
                 stop_seen, stop_reg, stop_calls, stop_runs>>
  /\ UNCHANGED extVars

\* the end of the setter: _nick = _new_nick, finally _new_nick = None, and
\* the lock is given up (by a handler, both levels of it)
LeaveSetter(t) ==
  /\ nick' = new_nick
  /\ new_nick' = None
  /\ nick_lock' = FreeLock
  /\ tasks' = IF tasks[t].kind = "user"
                THEN [tasks EXCEPT ![t].pc = "ready", ![t].p = None]
                ELSE Ended(tasks, t)
  /\ UNCHANGED <<started, stopped, send_queue, queue_none, message_handlers,
                 stop_handlers, wire, sendPc, cur, recvPc, pass, received,
                 events, stopPc, stop_seen, stop_reg, enq, stop_calls,
                 stop_runs, hist>>

\* wait_for_messages returns because on_pong has set the event
BarrierReturn(t) ==
  /\ tasks[t].pc = "barrier"
  /\ tasks[t].p \in received
  /\ LeaveSetter(t)
  /\ UNCHANGED extVars

\* wait_for_messages returns because WAIT_FOR_MESSAGES_TIMEOUT has passed
BarrierTimeout(t) ==
  /\ tasks[t].pc = "barrier"
  /\ tasks[t].p \notin received
  /\ LeaveSetter(t)
  /\ UNCHANGED extVars

\* ------------------------------------------- the default nick handlers
\* nick_in_use, the rejected nick: msg.params[0]
bad_nick(t) == tasks[t].m.param

\* nick_in_use finds a change in flight for the nick that is rejected
Cancels(t) == new_nick # None /\ bad_nick(t) = new_nick

\* nick_in_use goes on to the lock: the rejection names _new_nick, or _nick
Proceeds(t) == IF new_nick # None THEN bad_nick(t) = new_nick
                                  ELSE bad_nick(t) = nick

\* nick_in_use returns below the lock without a new change.  Its record is
\* kept when it had cancelled the change in flight.
Returns(t, note) ==
  IF note = "inflight"
    THEN [tasks EXCEPT ![t].pc = "returned", ![t].note = note]
    ELSE Ended(tasks, t)

\* nick_in_use up to the lock and, when the lock is free, through it
NickInUse(t) ==
  /\ tasks[t].kind = "nick_in_use" /\ tasks[t].pc = "spawned"
  /\ IF ~Proceeds(t)
       THEN /\ tasks' = Ended(tasks, t)
            /\ UNCHANGED <<new_nick, nick_lock, send_queue, enq,
                           message_handlers, hist>>
       ELSE IF ~LockFree(t)
         THEN /\ tasks' = [tasks EXCEPT ![t].pc = "wantlock",
                             ![t].note = IF Cancels(t) THEN "inflight" ELSE "stable"]
              /\ new_nick' = IF Cancels(t) THEN nick ELSE new_nick
              /\ UNCHANGED <<nick_lock, send_queue, enq, message_handlers, hist>>
         ELSE IF bad_nick(t) # nick
           THEN /\ tasks' = Returns(t, IF Cancels(t) THEN "inflight" ELSE "stable")
                /\ new_nick' = IF Cancels(t) THEN nick ELSE new_nick
                /\ UNCHANGED <<nick_lock, send_queue, enq, message_handlers, hist>>
           ELSE EnterSetter(t, increment_nick(nick),
                            IF Cancels(t) THEN "inflight" ELSE "stable")
  /\ UNCHANGED <<started, stopped, queue_none, stop_handlers, nick, wire,
                 sendPc, cur, recvPc, pass, received, events, stopPc,
                 stop_seen, stop_reg, stop_calls, stop_runs>>
  /\ UNCHANGED extVars

\* nick_in_use gets the lock it waited for
NickInUseLocked(t) ==
  /\ tasks[t].kind = "nick_in_use" /\ tasks[t].pc = "wantlock"
  /\ LockFree(t)
  /\ IF bad_nick(t) # nick
       THEN /\ tasks' = Returns(t, tasks[t].note)
            /\ UNCHANGED <<new_nick, nick_lock, send_queue, enq,
                           message_handlers, hist>>
       ELSE EnterSetter(t, increment_nick(nick), tasks[t].note)
  /\ UNCHANGED <<started, stopped, queue_none, stop_handlers, nick, wire,
                 sendPc, cur, recvPc, pass, received, events, stopPc,
                 stop_seen, stop_reg, stop_calls, stop_runs>>
  /\ UNCHANGED extVars

\* forced_nick_change: msg.nickname goes to the slot msg.sender is in
ForcedNickChange(t) ==
  /\ tasks[t].kind = "forced_nick_change" /\ tasks[t].pc = "spawned"
  /\ tasks' = Ended(tasks, t)
  /\ new_nick' = IF tasks[t].m.sender = new_nick THEN tasks[t].m.param
                                                 ELSE new_nick
  /\ nick' = IF tasks[t].m.sender # new_nick /\ tasks[t].m.sender = nick
               THEN tasks[t].m.param ELSE nick
  /\ UNCHANGED <<started, stopped, send_queue, queue_none, message_handlers,
                 stop_handlers, nick_lock, wire, sendPc, cur, recvPc, pass,
                 received, events, stopPc, stop_seen, stop_reg, enq,
                 stop_calls, stop_runs, hist>>
  /\ UNCHANGED extVars

\* on_pong of wait_for_messages: set the event, return True (unregister)
OnPong(t) ==
  /\ tasks[t].kind = "on_pong" /\ tasks[t].pc = "spawned"
  /\ tasks' = Ended(tasks, t)
  /\ received' = received \cup {tasks[t].p}
  /\ message_handlers' = message_handlers \ {Handler("on_pong", tasks[t].p)}
  /\ UNCHANGED <<started, stopped, send_queue, queue_none, stop_handlers, nick,
                 new_nick, nick_lock, wire, sendPc, cur, recvPc, pass, events,
                 stopPc, stop_seen, stop_reg, enq, stop_calls, stop_runs, hist>>
  /\ UNCHANGED extVars

\* lines of the server about nicks: a rejection of a nick, a NICK
\* notification with a sender or without a prefix, the PONG for a PING
NickLines ==
  { InMsg("433", "irc.example", n) : n \in {InitialNick, "bob"} }
  \cup { InMsg("NICK", s, "carol") : s \in {InitialNick, None, "bob"} }
  \cup { InMsg("PONG", "irc.example", Payload(k)) : k \in 1..hist.pings }

\* --------------------------------------------------- changing the nick
NextNick ==
  \/ \E u \in Users : Start(u)
  \/ \E u \in Users : SetNick(u, WantedNick(u))
  \/ \E u \in Users : SetterEnter(u)
  \/ \E t \in DOMAIN tasks : BarrierReturn(t)
  \/ \E t \in DOMAIN tasks : BarrierTimeout(t)
  \/ \E m \in NickLines : Process(m)
  \/ \E t \in DOMAIN tasks : NickInUse(t)
  \/ \E t \in DOMAIN tasks : NickInUseLocked(t)
  \/ \E t \in DOMAIN tasks : ForcedNickChange(t)
  \/ \E t \in DOMAIN tasks : OnPong(t)
  \/ RecvClosed
  \/ StopKill
  \/ \E fn \in StopFns : StopHandler(fn)
  \/ StopCleanup

SpecNick == Init /\ [][NextNick]_vars

\* ------------------------------------------------------ sending a message
NextSend ==
  \/ \E u \in Users : Start(u)
  \/ \E u \in Users, c \in {"PRIVMSG", "QUIT"}, k \in BOOLEAN : UserSend(u, c, k)
  \/ SendGet
  \/ SendPartial
  \/ SendDone
  \/ SendFail
  \/ \E t \in DOMAIN tasks : CallbackRun(t)
  \/ RecvClosed
  \/ StopKill
  \/ \E fn \in StopFns : StopHandler(fn)
  \/ StopCleanup

SpecSend == Init /\ [][NextSend]_vars

\* ------------------------------------------------- the ends of the loops
NextLoops ==
  \/ \E u \in Users : Start(u)
  \/ \E u \in Users, c \in {"PRIVMSG", "QUIT"} : UserSend(u, c, FALSE)
  \/ SendGet
  \/ SendPartial
  \/ SendDone
  \/ SendFail
  \/ RecvInterrupted
  \/ RecvClosed
  \/ StopKill
  \/ \E fn \in StopFns : StopHandler(fn)
  \/ StopCleanup

SpecLoops == Init /\ [][NextLoops]_vars

\* ------------------------------------------------- stopping and waiting
NextStop ==
  \/ \E u \in Users : Start(u)
  \/ \E u \in Users : StartFails(u)
  \/ \E u \in Users : UserStop(u)
  \/ \E u \in Users : UserJoined(u)
  \/ \E u \in Users : WaitForStop(u)
  \/ \E u \in Users : WaitReturn(u)
  \/ \E u \in Users : Quit(u)
  \/ SendGet
  \/ SendDone
  \/ SendFail
  \/ RecvClosed
  \/ StopKill
  \/ \E fn \in StopFns : StopHandler(fn)
  \/ StopSetChanged
  \/ StopCleanup

SpecStop == InitStop /\ [][NextStop]_vars

\* ------------------------------------------------- dispatching a message
NextDispatch ==
  \/ \E u \in Users : Start(u)
  \/ RecvLine(InMsg("PRIVMSG", "carol", "hi"))
  \/ \E h \in AllHandlers : ProcessStep(h)
  \/ \E u \in Users, h \in UserHandlers : Register(u, h)
  \/ \E u \in Users, h \in UserHandlers \cup {AddedHandler} : Unregister(u, h)
  \/ \E t \in DOMAIN tasks : HandlerRaises(t)
  \/ \E t \in DOMAIN tasks : HandlerChain(t)
  \/ \E t \in DOMAIN tasks : HandlerPlain(t)
  \/ RecvClosed
  \/ StopKill
  \/ \E fn \in StopFns : StopHandler(fn)
  \/ StopCleanup

SpecDispatch == Init /\ [][NextDispatch]_vars

\* ------------------------------------------- geventirc.message: frames
\* strings are sequences of characters; the characters that matter
DELIM == " "
CR == "CR"
NL == "LF"
NUL == "NUL"
INVALID_CHARS == {CR, NL, NUL}
CRLF == <<CR, NL>>

\* the parameters a message may have, and the parameters put in messages
MaxParams == 2
\* the length of strings that are quoted
MaxStr == 3

\* the first place at which sep is found in buf, 0 when there is none
Find(buf, sep) ==
  IF \E i \in 1..(Len(buf) - Len(sep) + 1) : SubSeq(buf, i, i + Len(sep) - 1) = sep
    THEN CHOOSE i \in 1..(Len(buf) - Len(sep) + 1) :
           /\ SubSeq(buf, i, i + Len(sep) - 1) = sep
           /\ \A j \in 1..(i - 1) : SubSeq(buf, j, j + Len(sep) - 1) # sep
    ELSE 0

\* buf.split(sep, 1): one or two parts
Split1(buf, sep) ==
  IF Find(buf, sep) = 0 THEN <<buf>>
  ELSE << SubSeq(buf, 1, Find(buf, sep) - 1),
          SubSeq(buf, Find(buf, sep) + Len(sep), Len(buf)) >>

\* buf.split(sep)
RECURSIVE SplitAll(_, _)
SplitAll(buf, sep) ==
  IF Find(buf, sep) = 0 THEN <<buf>>
  ELSE <<SubSeq(buf, 1, Find(buf, sep) - 1)>>
         \o SplitAll(SubSeq(buf, Find(buf, sep) + Len(sep), Len(buf)), sep)

\* sep.join(parts)
RECURSIVE Join(_, _)
Join(parts, sep) ==
  IF parts = << >> THEN << >>
  ELSE IF Len(parts) = 1 THEN parts[1]
  ELSE parts[1] \o sep \o Join(Tail(parts), sep)

\* is_valid_param(param)
is_valid_param(param) == ~ \E i \in 1..Len(param) : param[i] \in INVALID_CHARS

Prefix(str) == [set |-> TRUE, s |-> str]
Message(command, params, prefix) ==
  [prefix |-> prefix, command |-> command, params |-> params]

\* irc_split(data); ok is FALSE when it raises ProtocolViolationError
irc_split(data) ==
  LET colon == Len(data) > 0 /\ data[1] = ":"
      ps == IF colon THEN Split1(Tail(data), <<DELIM>>) ELSE <<data>>
      prefix == IF Len(ps) = 2 THEN ps[1] ELSE << >>
      buf == IF Len(ps) = 2 THEN ps[2] ELSE data
      cs == Split1(buf, <<DELIM>>)
  IN IF Len(cs) < 2 THEN NoDecoded
     ELSE LET ts == Split1(cs[2], <<DELIM, ":">>)
              params == IF Len(ts) = 2
                          THEN Append(SplitAll(ts[1], <<DELIM>>), ts[2])
                          ELSE SplitAll(ts[1], <<DELIM>>)
          IN [ok |-> TRUE, msg |-> Message(cs[1], params, Prefix(prefix))]

\* an irc_unsplit that writes the last parameter as it writes the others
irc_unsplit_plain(prefix, command, params) ==
  (IF prefix.set THEN prefix.s \o <<DELIM>> ELSE << >>)
    \o command \o <<DELIM>> \o Join(params, <<DELIM>>)

\* irc_unsplit(prefix, command, params), for params that is a list
irc_unsplit(prefix, command, params) ==
  LET head == (IF prefix.set THEN prefix.s \o <<DELIM>> ELSE << >>)
                \o command \o <<DELIM>>
      rparams == SubSeq(params, 1, Len(params) - 1)
      trailing == params[Len(params)]
  IN IF params = << >> THEN head
     ELSE head
          \o (IF rparams # << >> THEN Join(rparams, <<DELIM>>) \o <<DELIM>>
                                  ELSE << >>)
          \o (IF trailing # << >> THEN <<":">> \o trailing ELSE << >>)

\* Message.encode() and Message.decode(data)
encode(m) == irc_unsplit(m.prefix, m.command, m.params) \o CRLF
decode(data) == irc_split(data)

\* ----------------------------------------- geventirc.message: quoting
X_DELIM == "x01"
X_QUOTE == "x86"
M_QUOTE == "x10"

low_level_quote_table ==
  (NUL :> <<M_QUOTE, "0">>) @@ (NL :> <<M_QUOTE, "n">>)
    @@ (CR :> <<M_QUOTE, "r">>) @@ (M_QUOTE :> <<M_QUOTE, M_QUOTE>>)
ctcp_quote_table ==
  (X_DELIM :> <<X_QUOTE, "a">>) @@ (X_QUOTE :> <<X_QUOTE, X_QUOTE>>)

\* {v: k for k, v in table.items()}
Inverse(table) ==
  [ v \in { table[k] : k \in DOMAIN table } |->
      CHOOSE k \in DOMAIN table : table[k] = v ]
low_level_dequote_table == Inverse(low_level_quote_table)
ctcp_dequote_table == Inverse(ctcp_quote_table)

\* the loop of _quote from position pos on (positions count from 1 here,
\* so the first one, which the loop skips, is 1)
RECURSIVE QuoteLoop(_, _, _, _, _)
QuoteLoop(string, table, pos, cursor, buf) ==
  IF pos > Len(string) THEN buf \o SubSeq(string, cursor, Len(string))
  ELSE IF pos = 1 THEN QuoteLoop(string, table, 2, cursor, buf)
  ELSE IF string[pos] \in DOMAIN table
    THEN QuoteLoop(string, table, pos + 1, pos + 1,
                   buf \o SubSeq(string, cursor, pos - 1) \o table[string[pos]])
  ELSE QuoteLoop(string, table, pos + 1, cursor, buf)

\* _quote(string, table)
quote(string, table) == QuoteLoop(string, table, 1, 1, << >>)

\* the loop of _dequote; last_char is string[pos - 1]
RECURSIVE DequoteLoop(_, _, _, _, _)
DequoteLoop(string, table, pos, cursor, buf) ==
  IF pos > Len(string) THEN buf \o SubSeq(string, cursor, Len(string))
  ELSE IF pos = 1 THEN DequoteLoop(string, table, 2, cursor, buf)
  ELSE IF <<string[pos - 1], string[pos]>> \in DOMAIN table
    THEN DequoteLoop(string, table, pos + 1, pos + 1,
                     buf \o SubSeq(string, cursor, pos - 1)
                         \o <<table[<<string[pos - 1], string[pos]>>]>>)
  ELSE DequoteLoop(string, table, pos + 1, cursor, buf)

\* _dequote(string, table)
dequote(string, table) == DequoteLoop(string, table, 1, 1, << >>)

low_level_quote(string) == quote(string, low_level_quote_table)
low_level_dequote(string) == dequote(string, low_level_dequote_table)
ctcp_quote(string) == quote(string, ctcp_quote_table)
ctcp_dequote(string) == dequote(string, ctcp_dequote_table)

\* ------------------------------------- applying the functions to inputs
\* sequences over S of length up to n
RECURSIVE SeqsUpTo(_, _)
SeqsUpTo(S, n) ==
  IF n = 0 THEN {<< >>}
  ELSE SeqsUpTo(S, n - 1)
       \cup { Append(q, x) : q \in { r \in SeqsUpTo(S, n - 1) : Len(r) = n - 1 },
                             x \in S }

Str_NICK == <<"N", "I", "C", "K">>
Str_PING == <<"P", "I", "N", "G">>
Str_bob == <<"b", "o", "b">>
Str_abc123 == <<"a", "b", "c", "1", "2", "3">>
Commands == {Str_NICK, Str_PING}
ParamStrings == { Str_bob, Str_abc123, <<"h", "i", DELIM, "u">>, <<"a", CR>>,
                  <<"a", NUL>> }
Prefixes == { NoPrefix, Prefix(<<"s", "r", "v">>) }
Messages ==
  { Message(c, ps, pf) : c \in Commands, ps \in SeqsUpTo(ParamStrings, MaxParams),
                         pf \in Prefixes }
\* lines of a command and a trailing parameter alone
TrailingLines == { c \o <<DELIM, ":">> \o t : c \in Commands, t \in ParamStrings }
QuoteChars == {"a", "n", NL, M_QUOTE, X_DELIM, X_QUOTE}
QuoteStrings == SeqsUpTo(QuoteChars, MaxStr)

clientVars == <<started, stopped, send_queue, queue_none, message_handlers,
                stop_handlers, nick, new_nick, nick_lock, wire, sendPc, cur,
                recvPc, pass, tasks, received, events, stopPc, stop_seen,
                stop_reg, enq, stop_calls, stop_runs, hist>>

\* a message to encode, a line to decode, or a string to quote
InitCodec ==
  /\ ClientInit({})
  /\ rx = NoRx
  /\ srv = NoSrv
  /\ \/ \E m \in Messages :
          codec = [NoCodec EXCEPT !.kind = "message", !.pc = "new", !.msg = m]
     \/ \E l \in TrailingLines :
          codec = [NoCodec EXCEPT !.kind = "line", !.pc = "encoded", !.line = l]
     \/ \E t \in QuoteStrings, layer \in {"low", "ctcp"} :
          codec = [NoCodec EXCEPT !.kind = "string", !.pc = "new",
                                  !.layer = layer, !.text = t]

\* m.encode(); irc_unsplit has no raise for a list of parameters
Encode ==
  /\ codec.kind = "message" /\ codec.pc = "new"
  /\ codec' = [codec EXCEPT !.pc = "encoded", !.line = encode(codec.msg)]
  /\ UNCHANGED <<clientVars, rx, srv>>

\* Message.decode(line)
Decode ==
  /\ codec.kind \in {"message", "line"} /\ codec.pc = "encoded"
  /\ codec' = [codec EXCEPT !.pc = "decoded", !.back = decode(codec.line)]
  /\ UNCHANGED <<clientVars, rx, srv>>

\* low_level_quote(text) or ctcp_quote(text)
Quote ==
  /\ codec.kind = "string" /\ codec.pc = "new"
  /\ codec' = [codec EXCEPT !.pc = "quoted",
                 !.quoted = IF codec.layer = "low" THEN low_level_quote(codec.text)
                                                   ELSE ctcp_quote(codec.text)]
  /\ UNCHANGED <<clientVars, rx, srv>>

\* low_level_dequote(quoted) or ctcp_dequote(quoted)
Dequote ==
  /\ codec.kind = "string" /\ codec.pc = "quoted"
  /\ codec' = [codec EXCEPT !.pc = "dequoted",
                 !.dequoted = IF codec.layer = "low"
                                THEN low_level_dequote(codec.quoted)
                                ELSE ctcp_dequote(codec.quoted)]
  /\ UNCHANGED <<clientVars, rx, srv>>

NextCodec == Encode \/ Decode \/ Quote \/ Dequote

SpecCodec == InitCodec /\ [][NextCodec]_vars

\* ------------------------------------- Client._recv_loop: bytes to lines
\* the longest stream the server sends, and the most bytes one recv() gives
MaxStream == 4
MaxChunk == 2

\* bytes of the stream: a letter and the two bytes of the terminator
RxChars == {"a", CR, NL}
Streams == SeqsUpTo(RxChars, MaxStream)

Whitespace == {DELIM, CR, NL}

\* line.strip()
RECURSIVE strip(_)
strip(line) ==
  IF line = << >> THEN line
  ELSE IF line[1] \in Whitespace THEN strip(Tail(line))
  ELSE IF line[Len(line)] \in Whitespace THEN strip(SubSeq(line, 1, Len(line) - 1))
  ELSE line

\* the lines of a list that _process goes on to decode: stripped, not empty
Decoded(lines) ==
  SelectSeq([i \in DOMAIN lines |-> strip(lines[i])], LAMBDA l : l # << >>)

\* one turn of the loop that forgets partial
RxRecv_fresh(n) ==
  /\ recvPc = "recv" /\ rx.pc = "recv"
  /\ n \in 1..MaxChunk /\ n <= Len(rx.stream)
  /\ LET data == SubSeq(rx.stream, 1, n)
         lines == SplitAll(data, CRLF)
         whole == SubSeq(lines, 1, Len(lines) - 1)
     IN rx' = [rx EXCEPT !.stream = SubSeq(rx.stream, n + 1, Len(rx.stream)),
                         !.all = @ \o data,
                         !.partial = lines[Len(lines)],
                         !.lines = @ \o whole,
                         !.decoded = @ \o Decoded(whole),
                         !.cut = @ \/ (/\ rx.all # << >>
                                       /\ rx.all[Len(rx.all)] = CR
                                       /\ data[1] = NL)]
  /\ UNCHANGED <<clientVars, codec, srv>>

\* one turn of the loop: recv() gives the next n bytes, the lines that are
\* complete with them go to _process, the rest is kept in partial
RxRecv(n) ==
  /\ recvPc = "recv" /\ rx.pc = "recv"
  /\ n \in 1..MaxChunk /\ n <= Len(rx.stream)
  /\ LET data == SubSeq(rx.stream, 1, n)
         lines == SplitAll(rx.partial \o data, CRLF)
         whole == SubSeq(lines, 1, Len(lines) - 1)
     IN rx' = [rx EXCEPT !.stream = SubSeq(rx.stream, n + 1, Len(rx.stream)),
                         !.all = @ \o data,
                         !.partial = lines[Len(lines)],
                         !.lines = @ \o whole,
                         !.decoded = @ \o Decoded(whole),
                         !.cut = @ \/ (/\ rx.all # << >>
                                       /\ rx.all[Len(rx.all)] = CR
                                       /\ data[1] = NL)]
  /\ UNCHANGED <<clientVars, codec, srv>>

\* recv() gives no data: the loop ends, partial is logged and stop() called
RxClose ==
  /\ rx.pc = "recv" /\ rx.stream = << >>
  /\ RecvCloses
  /\ rx' = [rx EXCEPT !.pc = "closed", !.dropped = rx.partial]
  /\ UNCHANGED <<codec, srv>>

\* the bytes the server is going to send before it closes the connection
InitRecv ==
  /\ ClientInit({})
  /\ codec = NoCodec
  /\ srv = NoSrv
  /\ \E b \in Streams : rx = [NoRx EXCEPT !.pc = "recv", !.stream = b]

NextRecv ==
  \/ \E u \in Users : Start(u)
  \/ \E n \in 1..MaxChunk : RxRecv(n)
  \/ RxClose
  \/ StopKill
  \/ \E fn \in StopFns : StopHandler(fn)
  \/ StopCleanup

SpecRecv == InitRecv /\ [][NextRecv]_vars

\* ------------------------------------------------- the server of a client
\* how often the server rejects a nick or renames the client by itself
MaxMeddle == 2

\* the nick the server gives the client with its k-th rename
ForcedNick(k) == "guest" \o ToString(k)

\* lines of the client that are on the wire and that the server has not read
Unread == { i \in 1..Len(wire) : wire[i].part = "line" /\ wire[i].id \notin srv.read }

\* the reply of the server to a line of the client: a NICK that it rejects is
\* answered with 433, one that it accepts is announced to a registered
\* client, a PING is echoed
Reply(m, reject) ==
  CASE m.command = "NICK" /\ reject -> <<InMsg("433", "irc.example", m.param)>>
    [] m.command = "NICK" /\ ~reject /\ srv.nick # None ->
         <<InMsg("NICK", srv.nick, m.param)>>
    [] m.command = "PING" -> <<InMsg("PONG", "irc.example", m.param)>>
    [] OTHER -> << >>

\* the server reads line i of the wire
Serve(i, reject) ==
  /\ srv.on
  /\ reject => enq[wire[i].id].command = "NICK" /\ srv.meddled < MaxMeddle
  /\ srv' = [srv EXCEPT
       !.read = @ \cup {wire[i].id},
       !.out = @ \o Reply(enq[wire[i].id], reject),
       !.nick = IF enq[wire[i].id].command = "NICK" /\ ~reject
                  THEN enq[wire[i].id].param ELSE @,
       !.meddled = IF reject THEN @ + 1 ELSE @,
       !.rejected = IF reject THEN @ \cup {enq[wire[i].id].param} ELSE @]
  /\ UNCHANGED <<clientVars, codec, rx>>

\* a server that reads any line that is on the wire
SrvRead_any(reject) ==
  \E i \in Unread : Serve(i, reject)

\* the server reads the lines of a client in the order they were written
SrvRead(reject) ==
  /\ Unread # {}
  /\ Serve(CHOOSE i \in Unread : \A j \in Unread : i <= j, reject)

\* the server renames the client
SrvForce ==
  /\ srv.on
  /\ srv.nick # None
  /\ srv.meddled < MaxMeddle
  /\ srv' = [srv EXCEPT
       !.out = Append(@, InMsg("NICK", srv.nick, ForcedNick(srv.meddled + 1))),
       !.nick = ForcedNick(srv.meddled + 1),
       !.meddled = @ + 1]
  /\ UNCHANGED <<clientVars, codec, rx>>

\* recv() returns the next line of the server, _process dispatches it
Deliver ==
  /\ srv.out # << >>
  /\ ProcessLine(Head(srv.out))
  /\ srv' = [srv EXCEPT !.out = Tail(@)]
  /\ UNCHANGED <<codec, rx>>

InitServer ==
  /\ ClientInit({})
  /\ codec = NoCodec
  /\ rx = NoRx
  /\ srv = [NoSrv EXCEPT !.on = TRUE]

NextServer ==
  \/ \E u \in Users : Start(u)
  \/ \E u \in Users : SetNick(u, WantedNick(u))
  \/ \E u \in Users : SetterEnter(u)
  \/ \E t \in DOMAIN tasks : BarrierReturn(t)
  \/ \E t \in DOMAIN tasks : NickInUse(t)
  \/ \E t \in DOMAIN tasks : NickInUseLocked(t)
  \/ \E t \in DOMAIN tasks : ForcedNickChange(t)
  \/ \E t \in DOMAIN tasks : OnPong(t)
  \/ SendGet
  \/ SendDone
  \/ \E reject \in BOOLEAN : SrvRead(reject)
  \/ SrvForce
  \/ Deliver

\* a server that answers in order, and a client whose barrier never times out
SpecServer == InitServer /\ [][NextServer]_vars

\* the same with a barrier that can time out
NextRetry == NextServer \/ \E t \in DOMAIN tasks : BarrierTimeout(t)

SpecRetry == InitServer /\ [][NextRetry]_vars

\* ------------------------------------------------------------ properties
IsComplete(w) == w.part \in {"line", "tail"}

\* the lines that are on the wire in full, in the order of their last byte
Complete == SelectSeq(wire, IsComplete)

Written(i) == \E j \in 1..Len(wire) : wire[j].id = i /\ IsComplete(wire[j])

\* messages the sender loop has taken from the queue
Dequeued == Len(enq) - Len(send_queue)

\* C1: the lines on the wire are the messages passed to _send, in the order
\* they were queued, each once; the bytes of a line are never mixed with
\* those of another, and a message is taken from the queue only when the
\* line of the one before it is on the wire in full.
C1_FifoOrder ==
  /\ \A i \in 1..Len(Complete) : Complete[i].id = enq[i].id
  /\ \A i \in 1..Len(wire) :
       /\ wire[i].part = "head" =>
            \/ i = Len(wire)
            \/ wire[i + 1] = [id |-> wire[i].id, part |-> "tail"]
       /\ wire[i].part = "tail" =>
            i > 1 /\ wire[i - 1] = [id |-> wire[i].id, part |-> "head"]
  /\ Dequeued <= Len(Complete) + 1
  /\ sendPc = "get" => Dequeued = Len(Complete)

\* every message is on the wire, one of them written in two parts
C1_Witness ==
  /\ Len(Complete) = Len(enq)
  /\ Len(enq) = 2 + MaxSend
  /\ \E i \in 1..Len(wire) : wire[i].part = "tail" /\ wire[i].id > 2

\* C5: however often and by whomever stop() is called, the shutdown
\* sequence is started once, by the first call.
C5_ShutdownOnce ==
  /\ stop_runs <= 1
  /\ stop_calls >= 1 <=> stop_runs = 1
  /\ stopped <=> stop_runs = 1
  /\ stopPc # "none" => stopped

\* stop() is called again while the first caller still waits in join()
C5_Witness ==
  /\ stop_calls = MaxStopCalls
  /\ stop_runs = 1
  /\ \E u \in Users : tasks[u].pc = "join"
  /\ stopPc = "handlers"

\* C6: when the shutdown sequence has ended, every callback that was in
\* stop_handlers when it began has been called exactly once.
C6_EveryStopHandlerOnce ==
  /\ \A fn \in StopFns : stop_seen[fn] <= 1
  /\ stopPc \in {"done", "crashed"} => \A fn \in stop_reg : stop_seen[fn] = 1

\* C7: a completion callback exists only for a message that is on the
\* wire in full, there is one for every such message that had a callback,
\* and none is discarded without having run.
C7_CallbackAfterWrite ==
  /\ \A t \in DOMAIN tasks : tasks[t].kind = "callback" =>
       /\ Written(tasks[t].m.id)
       /\ tasks[t].pc # "killed"
  /\ \A i \in 1..Len(enq) : Written(i) /\ enq[i].cb =>
       Cardinality({t \in DOMAIN tasks :
                      tasks[t].kind = "callback" /\ tasks[t].m.id = i}) = 1

\* C8: once the client has stopped, every task in wait_for_stop() has its
\* event set.
C8_WaitersReleased ==
  stopPc = "done" =>
    \A u \in Users : tasks[u].pc = "wait_stop" => tasks[u].p \in events

\* tasks that are inside the nick setter, at the barrier of
\* wait_for_messages
InFlight == { t \in DOMAIN tasks : tasks[t].pc = "barrier" }

\* the nicks there are: the constructor's, those callers ask for, the one
\* the server forces, and what increment_nick makes of them
RECURSIVE Increments(_, _)
Increments(S, k) ==
  IF k = 0 THEN S
  ELSE Increments(S \cup { increment_nick(n) : n \in S }, k - 1)
KnownNicks == Increments({InitialNick, "carol"} \cup WantedNicks, MaxInbound)

\* the NICK commands passed to _send after the constructor's
NickCommands == SelectSeq(SubSeq(enq, 3, Len(enq)), LAMBDA m : m.command = "NICK")

\* C2: at most one nick change is in flight; the task in flight holds the
\* lock and _new_nick is set, a task that waits for the lock has not sent
\* its NICK (one NICK per change that got the lock), and _nick is always a
\* whole nick.
C2_OneChangeInFlight ==
  /\ Cardinality(InFlight) <= 1
  /\ \A t \in InFlight : nick_lock.owner = t /\ new_nick \in KnownNicks
  /\ InFlight = {} => nick_lock = FreeLock
  /\ Len(NickCommands) = hist.pings
  /\ \A u \in Users : tasks[u].pc = "wantlock" =>
       \A i \in 1..Len(NickCommands) : NickCommands[i].param # tasks[u].p
  /\ nick \in KnownNicks

\* one task is in the setter with its NICK queued, another waits for the
\* lock with a different nick
C2_Witness ==
  \E t \in InFlight, u \in Users :
    /\ u # t
    /\ tasks[u].pc = "wantlock"
    /\ tasks[u].p # new_nick
    /\ Len(NickCommands) = 1

\* C3: when nick_in_use has dealt with a rejection that named the nick of
\* the change in flight, a NICK for the next candidate after the rejected
\* nick has been sent.
C3_CollisionRetry ==
  \A t \in DOMAIN tasks :
    tasks[t].kind = "nick_in_use" /\ tasks[t].pc = "returned"
                                  /\ tasks[t].note = "inflight" =>
      \E i \in 1..Len(NickCommands) :
        NickCommands[i].param = increment_nick(bad_nick(t))

\* C4: _new_nick is set only while a task is in the setter and holds the
\* lock.
C4_PendingOnlyInFlight ==
  new_nick # None => \E t \in InFlight : nick_lock.owner = t

\* C9: the handlers offered a message are handlers of the copy made when
\* its pass began, and when the pass is over they are all of them, whatever
\* was registered or unregistered meanwhile.
C9_SnapshotDispatch ==
  /\ pass.offered \subseteq pass.snapshot
  /\ recvPc = "recv" => pass.offered = pass.snapshot

\* in the middle of a pass a callback has registered a handler that is not
\* in the copy, and a handler of the copy that is still to be offered the
\* message has been unregistered
C9_Witness ==
  /\ recvPc = "process"
  /\ pass.offered # {}
  /\ AddedHandler \in message_handlers \ pass.snapshot
  /\ (pass.snapshot \ message_handlers) \ pass.offered # {}

\* a callback has raised
Faulted == hist.fault.line > 0

SetterRaises(u) == tasks[u].pc = "wantlock" /\ tasks'[u].pc = "ready"

\* a QUIT is passed to _send in this step
QuitRequested ==
  \E i \in DOMAIN enq' : i > Len(enq) /\ enq'[i].command = "QUIT"

\* C11: when sending the NICK command or the barrier raises inside the nick
\* setter, a QUIT is requested, the exception that was raised is the one the
\* caller gets, _new_nick is cleared and _nick is not promoted
C11_SendFailure ==
  [][\A u \in Users :
       SetterRaises(u) => /\ QuitRequested
                          /\ tasks'[u].note = SendError
                          /\ new_nick' = None
                          /\ nick' = nick]_vars

\* the parameters before the last one hold no space, NUL, CR or LF
PlainMiddle(m) ==
  \A i \in 1..(Len(m.params) - 1) :
    \A j \in 1..Len(m.params[i]) : m.params[i][j] \notin INVALID_CHARS \cup {DELIM}

\* C13: decoding the line a message with plain middle parameters encodes
\* to gives the prefix, command and parameters of that message.
C13_FrameRoundTrip ==
  codec.kind = "message" /\ codec.pc = "decoded" /\ PlainMiddle(codec.msg) =>
    codec.back.ok /\ codec.back.msg = codec.msg

\* C14: dequoting the quoted form of a string gives the string, in both
\* layers.
C14_QuoteRoundTrip ==
  codec.kind = "string" /\ codec.pc = "dequoted" => codec.dequoted = codec.text

\* C15: a line of a command and a trailing parameter t alone decodes to
\* that command with the parameters [t].
C15_TrailingOnly ==
  codec.kind = "line" /\ codec.pc = "decoded" =>
    \A c \in Commands, t \in ParamStrings :
      codec.line = c \o <<DELIM, ":">> \o t =>
        /\ codec.back.ok
        /\ codec.back.msg.command = c
        /\ codec.back.msg.params = <<t>>

\* the message NICK with the parameter bob and no prefix has been encoded
NickBobEncoded ==
  /\ codec.kind = "message"
  /\ codec.pc \in {"encoded", "decoded"}
  /\ codec.msg = Message(Str_NICK, <<Str_bob>>, NoPrefix)

\* C16 (as stated): NICK with the parameter bob encodes to "NICK bob" and
\* the line terminator.
C16_EncodeNickBob ==
  NickBobEncoded => codec.line = Str_NICK \o <<DELIM>> \o Str_bob \o CRLF

\* C16 (amended): NICK with the parameter bob encodes to "NICK :bob" and
\* the line terminator: the last parameter is written as the trailing one.
C16_EncodeNickBobTrailing ==
  NickBobEncoded => codec.line = Str_NICK \o <<DELIM, ":">> \o Str_bob \o CRLF

C16_Witness == NickBobEncoded /\ codec.pc = "encoded"

\* C17: encoding a message one of whose parameters before the last holds
\* a space, NUL, CR or LF fails and gives no line.
C17_EncodeValidates ==
  codec.kind = "message" /\ codec.pc \in {"encoded", "decoded"}
                         /\ ~PlainMiddle(codec.msg) =>
    codec.raised /\ codec.line = << >>

\* the lines of a stream that end with CR LF, in order, without the
\* terminator
RECURSIVE CompleteLines(_)
CompleteLines(bytes) ==
  IF \E i \in 1..(Len(bytes) - 1) : bytes[i] = CR /\ bytes[i + 1] = NL
    THEN LET i == CHOOSE k \in 1..(Len(bytes) - 1) :
                    /\ bytes[k] = CR /\ bytes[k + 1] = NL
                    /\ \A j \in 1..(k - 1) : ~(bytes[j] = CR /\ bytes[j + 1] = NL)
         IN <<SubSeq(bytes, 1, i - 1)>>
              \o CompleteLines(SubSeq(bytes, i + 2, Len(bytes)))
    ELSE << >>

\* what follows the last CR LF of a stream
RECURSIVE Fragment(_)
Fragment(bytes) ==
  IF \E i \in 1..(Len(bytes) - 1) : bytes[i] = CR /\ bytes[i + 1] = NL
    THEN LET i == CHOOSE k \in 1..(Len(bytes) - 1) :
                    /\ bytes[k] = CR /\ bytes[k + 1] = NL
                    /\ \A j \in 1..(k - 1) : ~(bytes[j] = CR /\ bytes[j + 1] = NL)
         IN Fragment(SubSeq(bytes, i + 2, Len(bytes)))
    ELSE bytes

PingIndex(p) == CHOOSE i \in DOMAIN enq : enq[i].command = "PING" /\ enq[i].param = p

\* the echo of the PING with payload p can still be missed: it is neither
\* waited for by a registered handler nor dispatched to one
Missable(p) ==
  /\ Handler("on_pong", p) \notin message_handlers
  /\ p \notin received
  /\ ~ \E t \in DOMAIN tasks : tasks[t].kind = "on_pong" /\ tasks[t].p = p

\* C18: with a server that reads in order, when the event of
\* wait_for_messages is set by the PONG with its payload, all that was queued
\* before the PING (the NICK of the setter with it) is on the wire and has
\* been read by the server; on_pong is registered when the PING is queued
C18_Barrier ==
  /\ \A t \in DOMAIN tasks :
       tasks[t].pc = "barrier" /\ tasks[t].p \in received =>
         \A i \in 1..PingIndex(tasks[t].p) : Written(i) /\ i \in srv.read
  /\ \A i \in DOMAIN enq : enq[i].command = "PING" => ~Missable(enq[i].param)

\* the setter of user 1 is about to return from the barrier by the echo, and
\* the server has taken the new nick
C18_Witness ==
  /\ 1 \in DOMAIN tasks
  /\ tasks[1].pc = "barrier"
  /\ tasks[1].p \in received
  /\ srv.nick = "bob"
  /\ new_nick = "bob"

\* nothing is on its way: all that was sent has been read and answered, all
\* that was received has been handled, and no setter is running
Settled ==
  /\ send_queue = << >> /\ sendPc = "get"
  /\ Unread = {}
  /\ srv.out = << >>
  /\ \A t \in DOMAIN tasks : tasks[t].pc \notin {"spawned", "wantlock", "barrier"}
  /\ new_nick = None

\* C19: once a change of the nick by the client, with renames and rejections
\* of the server in between, is completed by the echo and all lines are
\* handled, _nick is the nick the server has for the client
C19_TracksServer ==
  srv.on /\ hist.asked # {} /\ Settled /\ srv.nick # None => nick = srv.nick

\* the NICK commands of nick_in_use: those for a nick no caller asked for
Retries == SelectSeq(NickCommands, LAMBDA m : m.param \notin WantedNicks)

\* C12: the collision retry ends by itself: a client whose candidates are
\* rejected one after the other gives up while the server would still
\* reject, so it has sent fewer retries than the server has rejections to
\* give (MaxMeddle of them here)
C12_RetryGivesUp == Len(Retries) < MaxMeddle

\* the places of the wire where the line of a QUIT ends
QuitWritten ==
  { j \in 1..Len(wire) : IsComplete(wire[j]) /\ enq[wire[j].id].command = "QUIT" }

\* C21: once the line of a QUIT is on the wire, _send_loop has left its loop
\* and called stop(), and nothing is written after that line: not what was
\* queued behind the QUIT, and not what is passed to _send later
C21_QuitEndsSending ==
  \A j \in QuitWritten :
    /\ j = Len(wire)
    /\ sendPc \in {"join", "exited", "killed"}
    /\ cur = NoMsg
    /\ stopped
    /\ stop_calls >= 1

\* a QUIT is on the wire, a message queued behind it has stayed in the queue
\* and the sender loop is gone
C21_Witness ==
  /\ QuitWritten # {}
  /\ \E i \in DOMAIN enq : i > wire[Len(wire)].id /\ ~Written(i)
  /\ sendPc = "killed"

\* a loop has been left: _recv_loop is past its while loop, or _send_loop is
Left(pc) == pc \in {"join", "exited", "killed"}

\* a recv() is interrupted in this step
Interrupted == hist'.eintr /\ ~hist.eintr

\* C22: an interrupted recv() is tried again and stops nothing; whenever
\* _recv_loop or _send_loop has been left, by a read of no data, a read
\* error, a write error of any kind or a QUIT, stop() has been called and
\* the client is stopped, with one _stop greenlet
C22_LoopExitStops ==
  /\ [](Left(recvPc) \/ Left(sendPc) =>
          stopped /\ stop_calls >= 1 /\ stop_runs = 1)
  /\ [][Interrupted => /\ recvPc' = "recv"
                       /\ stopped' = stopped
                       /\ stop_calls' = stop_calls
                       /\ stopPc' = stopPc]_vars

\* a recv() was interrupted, the receiver went on until the connection was
\* closed, and the shutdown has run
C22_Witness ==
  /\ hist.eintr
  /\ hist.closed
  /\ Left(recvPc) /\ Left(sendPc)
  /\ stopped
  /\ stopPc = "done"
====
